---- MODULE Spec2Model ----
(***************************************************************************)
(* Emergency Home Services API (src/main.py, src/schemas.py).              *)
(*                                                                         *)
(* The store is three collections of documents kept in insertion order.    *)
(* Each request handler runs in a worker of the server; a handler is a     *)
(* sequence of store operations, and every store operation is one atomic   *)
(* step, so handlers of different requests interleave between their store  *)
(* operations.  The fetch by _id that follows an insert reads only the     *)
(* document just inserted, which no operation changes or deletes, and is   *)
(* taken together with the insert.  The state keeps the response sent      *)
(* last, with the request it answers and the source line that produced it. *)
(*                                                                         *)
(* Strings that the code inspects character by character (ObjectId hex     *)
(* strings, regular expressions, locations) are sequences of one-character *)
(* strings.  An Optional[str] parameter that is None or empty is the empty *)
(* string (or empty sequence): the code tests such parameters only for     *)
(* truthiness.                                                             *)
(***************************************************************************)
EXTENDS Integers, Sequences, FiniteSets, TLC

(***************************************************************************)
(* Bounds of the model.                                                    *)
(***************************************************************************)
MaxUsers == 2
MaxCreated == 1
MaxBookings == 2
MaxClock == 2
OidLen == 2

(***************************************************************************)
(* Program constants.                                                      *)
(***************************************************************************)
WorkerLimit == 200
BookingLimit == 100

Procs == {"r1", "r2"}

(***************************************************************************)
(* Characters.                                                             *)
(***************************************************************************)
UpperChars == <<"A", "B", "C", "D", "E", "F", "G", "H", "I", "J", "K", "L", "M",
                "N", "O", "P", "Q", "R", "S", "T", "U", "V", "W", "X", "Y", "Z">>
LowerChars == <<"a", "b", "c", "d", "e", "f", "g", "h", "i", "j", "k", "l", "m",
                "n", "o", "p", "q", "r", "s", "t", "u", "v", "w", "x", "y", "z">>
HexDigits == <<"0", "1", "2", "3", "4", "5", "6", "7", "8", "9",
               "a", "b", "c", "d", "e", "f">>

Range(s) == {s[i] : i \in DOMAIN s}

Lower(c) ==
    IF \E i \in DOMAIN UpperChars : UpperChars[i] = c
    THEN LowerChars[CHOOSE i \in DOMAIN UpperChars : UpperChars[i] = c]
    ELSE c

LowerStr(s) == [i \in DOMAIN s |-> Lower(s[i])]

(***************************************************************************)
(* bson.ObjectId: ObjectId(s) raises InvalidId unless s is a hex string of *)
(* the fixed length; hex digits are accepted in either case and            *)
(* str(ObjectId(s)) is the lower-case form.                                *)
(***************************************************************************)
ObjectIdValid(s) ==
    /\ Len(s) = OidLen
    /\ \A i \in DOMAIN s : Lower(s[i]) \in Range(HexDigits)

ObjectId(s) == LowerStr(s)

\* The n-th identifier the store generates for a collection: identifiers are
\* unique across the store (the first digit names the collection).
NewOid(tag, n) ==
    <<tag>> \o [i \in 1..(OidLen - 2) |-> "0"] \o <<HexDigits[n + 1]>>

CollTag(coll) ==
    CASE coll = "user" -> "a"
      [] coll = "worker" -> "b"
      [] coll = "booking" -> "c"

(***************************************************************************)
(* hash_password: the SHA-256 hex digest (its first eight digits) of the   *)
(* passwords the requests use.                                             *)
(***************************************************************************)
Passwords == {"pw1", "pw2", "wrong"}

hash_password(pw) ==
    CASE pw = "pw1" -> "c592df4a"
      [] pw = "pw2" -> "93915a0a"
      [] pw = "wrong" -> "8810ad58"

(***************************************************************************)
(* datetime.fromisoformat(s).date() on a date string YYYY-MM-DD, given as  *)
(* <<year, month, day>>: the set holding the date, or the empty set where  *)
(* the call raises ValueError.                                             *)
(***************************************************************************)
IsLeap(y) == (y % 4 = 0 /\ y % 100 # 0) \/ y % 400 = 0

DaysInMonth(y, m) ==
    CASE m \in {1, 3, 5, 7, 8, 10, 12} -> 31
      [] m \in {4, 6, 9, 11} -> 30
      [] m = 2 -> IF IsLeap(y) THEN 29 ELSE 28

fromisoformat(s) ==
    IF /\ s[1] \in 1..9999
       /\ s[2] \in 1..12
       /\ s[3] \in 1..DaysInMonth(s[1], s[2])
    THEN {s}
    ELSE {}

(***************************************************************************)
(* The location filter {"$regex": location, "$options": "i"}: an           *)
(* unanchored, case-insensitive regular-expression search.  Of the         *)
(* expression language the requests use literals, "." (any character) and  *)
(* grouping parentheses, which match no character themselves.  An          *)
(* expression with unbalanced parentheses is rejected by the store.        *)
(***************************************************************************)
RECURSIVE ParenDepthOk(_, _)
ParenDepthOk(pat, depth) ==
    IF pat = <<>> THEN depth = 0
    ELSE IF Head(pat) = "(" THEN ParenDepthOk(Tail(pat), depth + 1)
    ELSE IF Head(pat) = ")" THEN depth > 0 /\ ParenDepthOk(Tail(pat), depth - 1)
    ELSE ParenDepthOk(Tail(pat), depth)

RegexValid(pat) == ParenDepthOk(pat, 0)

RECURSIVE StripGroups(_)
StripGroups(pat) ==
    IF pat = <<>> THEN <<>>
    ELSE IF Head(pat) \in {"(", ")"} THEN StripGroups(Tail(pat))
    ELSE <<Head(pat)>> \o StripGroups(Tail(pat))

RegexSearch(pat, str) ==
    LET p == StripGroups(pat)
    IN  \E off \in 0..(Len(str) - Len(p)) :
            \A k \in DOMAIN p :
                p[k] = "." \/ Lower(p[k]) = Lower(str[off + k])

(***************************************************************************)
(* Request inputs.                                                         *)
(***************************************************************************)
RegisterInputs ==
    { [name |-> "Alice", email |-> "a@x.com", password |-> "pw1"],
      [name |-> "Bob", email |-> "a@x.com", password |-> "pw2"],
      [name |-> "Bob", email |-> "b@x.com", password |-> "pw1"] }

Emails == {"a@x.com", "b@x.com"}

Guntur == <<"G", "u", "n", "t", "u", "r">>
WardA == <<"W", "(", "A", ")">>

\* The sample workers of the seed routine (two of its entries; the routine
\* treats every entry alike).  Ratings are in tenths.
ap_workers ==
    << [name |-> "Arun K", service_type |-> "plumber", location |-> Guntur,
        rating |-> 44, experience_years |-> 4],
       [name |-> "Rahul Dev", service_type |-> "electrician", location |-> Guntur,
        rating |-> 45, experience_years |-> 6] >>

CreateWorkerInputs ==
    { [name |-> "Ravi", service_type |-> "plumber", location |-> Guntur,
       rating |-> 45, experience_years |-> 1],
      [name |-> "Ravi", service_type |-> "plumber", location |-> WardA,
       rating |-> 45, experience_years |-> 1],
      [name |-> "Ravi", service_type |-> "plumber", location |-> Guntur,
       rating |-> 60, experience_years |-> 1],
      [name |-> "Ravi", service_type |-> "plumber", location |-> Guntur,
       rating |-> 45, experience_years |-> -1] }

ServiceTypeFilters == {"", "plumber"}
LocationFilters == {<<>>, <<"g", "u", "n">>, Guntur, WardA, <<"W", "(">>}

UpperStr(s) ==
    [i \in DOMAIN s |->
        IF \E k \in DOMAIN LowerChars : LowerChars[k] = s[i]
        THEN UpperChars[CHOOSE k \in DOMAIN LowerChars : LowerChars[k] = s[i]]
        ELSE s[i]]

\* Identifier and date strings a client may send to create_booking:
\* identifiers the store has issued or may issue (CreatedWorker is the one
\* of the first worker inserted after the sample workers), one in upper
\* case, one of another collection, malformed ones (a character that is no
\* hex digit, a wrong length), and a date that does not exist.
User0 == NewOid("a", 0)
User1 == NewOid("a", 1)
Worker0 == NewOid("b", 0)
CreatedWorker == NewOid("b", Len(ap_workers))
GoodDate == <<2025, 2, 28>>
BadDate == <<2025, 2, 30>>

BookingInputs ==
    { [user_id |-> User0, worker_id |-> Worker0, service_date |-> GoodDate],
      [user_id |-> UpperStr(User0), worker_id |-> Worker0, service_date |-> GoodDate],
      [user_id |-> User1, worker_id |-> Worker0, service_date |-> GoodDate],
      [user_id |-> User0, worker_id |-> User0, service_date |-> GoodDate],
      [user_id |-> User0, worker_id |-> CreatedWorker, service_date |-> GoodDate],
      [user_id |-> <<"z">> \o Tail(User0), worker_id |-> Worker0,
       service_date |-> GoodDate],
      [user_id |-> User1, worker_id |-> <<"z">> \o Tail(Worker0),
       service_date |-> GoodDate],
      [user_id |-> Tail(User0), worker_id |-> Worker0, service_date |-> BadDate],
      [user_id |-> User0, worker_id |-> Worker0, service_date |-> BadDate] }

\* The optional user_id parameter of list_bookings: absent, or a string
\* (possibly empty, as in GET /bookings?user_id=).
None == [some |-> FALSE, val |-> <<>>]
Some(s) == [some |-> TRUE, val |-> s]
Truthy(opt) == opt.some /\ opt.val # <<>>

BookingFilters == { None, Some(<<>>), Some(User0), Some(User1) }

(***************************************************************************)
(* State.                                                                  *)
(***************************************************************************)
VARIABLES
    dbAvailable,  \* database.db is not None
    user,         \* db["user"]: documents in insertion order
    worker,       \* db["worker"]
    booking,      \* db["booking"]
    touched,      \* some store operation has been performed
    pc,           \* per request worker: "ready" or the handler's next step
    req,          \* per request worker: the request being handled
    found,        \* per request worker: create_booking's local `user` is truthy
    resp,         \* the response sent last: the worker, its request, the
                  \* response and the source line that produced it
    seedPc,       \* the startup routine: "start", "seeding" or "up"
    seedIdx,      \* next entry of ap_workers to insert
    seedSawEmpty, \* the count the running (or last) startup read was 0
    seeded        \* documents inserted by the startup routine so far

vars == <<dbAvailable, user, worker, booking, touched, pc, req, found, resp,
          seedPc, seedIdx, seedSawEmpty, seeded>>

store == <<user, worker, booking>>
seedVars == <<seedPc, seedIdx, seedSawEmpty, seeded>>

NoReq == [op |-> "none"]

Ok(docs) == [status |-> 200, detail |-> "", body |-> docs]
HTTPException(status_code, detail) ==
    [status |-> status_code, detail |-> detail, body |-> <<>>]
\* An exception no handler catches: the framework answers 500.
Unhandled == HTTPException(500, "Internal Server Error")

NoResp == [proc |-> "", req |-> NoReq, line |-> 0] @@ HTTPException(0, "")

Init ==
    /\ dbAvailable \in BOOLEAN
    /\ user = <<>>
    /\ worker = <<>>
    /\ booking = <<>>
    /\ touched = FALSE
    /\ pc = [p \in Procs |-> "ready"]
    /\ req = [p \in Procs |-> NoReq]
    /\ found = [p \in Procs |-> FALSE]
    /\ resp = NoResp
    /\ seedPc = "start"
    /\ seedIdx = 1
    /\ seedSawEmpty = FALSE
    /\ seeded = 0

(***************************************************************************)
(* Document store adapter.                                                 *)
(***************************************************************************)
\* The clock readings create_document may stamp a new document of `docs`
\* with: the clock does not run backwards.  Only booking documents carry
\* the stamp in the model: no query reads it in the other collections.
Stamps(docs) ==
    LET latest == IF docs = <<>> THEN 0 ELSE docs[Len(docs)].created_at
    IN  {t \in {latest, latest + 1} : t <= MaxClock}

\* create_document(collection_name, record): serializes the record, stamps
\* it, inserts it and returns the generated identifier (the _id of the
\* last document of the result).
create_document(docs, coll, record, stamp) ==
    Append(docs, [_id |-> NewOid(CollTag(coll), Len(docs))] @@ stamp @@ record)

NoStamp == [x \in {} |-> 0]

\* collection.find_one(filter): the candidates the store may return, empty
\* for None.  The store does not specify which of several matches it returns.
find_one_by_email(docs, email) ==
    {docs[i] : i \in {k \in DOMAIN docs : docs[k].email = email}}
find_one_by_id(docs, oid) ==
    {docs[i] : i \in {k \in DOMAIN docs : docs[k]._id = oid}}

to_public_id(doc) ==
    [f \in (DOMAIN doc \ {"_id"}) \cup {"id"} |->
        IF f = "id" THEN doc._id ELSE doc[f]]

Last(s) == s[Len(s)]
Min(a, b) == IF a <= b THEN a ELSE b
Limit(s, n) == SubSeq(s, 1, Min(n, Len(s)))
MapPublic(docs) == [i \in DOMAIN docs |-> to_public_id(docs[i])]

\* The handler of worker p returns or raises at source line ln.
Finish(p, request, r, ln) ==
    /\ resp' = [proc |-> p, req |-> request, line |-> ln] @@ r
    /\ pc' = [pc EXCEPT ![p] = "ready"]
    /\ req' = [req EXCEPT ![p] = NoReq]

Goto(p, request, label) ==
    /\ pc' = [pc EXCEPT ![p] = label]
    /\ req' = [req EXCEPT ![p] = request]
    /\ UNCHANGED resp

Pending(label) == Cardinality({q \in Procs : pc[q] = label})

(***************************************************************************)
(* POST /auth/register                                                     *)
(***************************************************************************)
\* A lookup that filters on the wrong field.
register_existing_wrong_field(email) ==
    {user[i] : i \in {k \in DOMAIN user : user[k].name = email}}

\* existing = db["user"].find_one({"email": payload.email})
register_existing(email) == find_one_by_email(user, email)

UserSchema(name, email, password) ==
    [name |-> name, email |-> email, password_hash |-> hash_password(password),
     is_active |-> TRUE]

\* The handler up to its existence check.
register_lookup(p) ==
    /\ pc[p] = "ready"
    /\ \E payload \in RegisterInputs :
        LET request == [op |-> "register"] @@ payload
        IN  IF ~dbAvailable
            THEN /\ Finish(p, request, HTTPException(500, "Database not available"), 169)
                 /\ UNCHANGED touched
            ELSE /\ touched' = TRUE
                 /\ IF register_existing(payload.email) # {}
                    THEN Finish(p, request,
                                HTTPException(400, "Email already registered"), 172)
                    ELSE /\ Len(user) + Pending("reg_insert") < MaxUsers
                         /\ Goto(p, request, "reg_insert")
    /\ UNCHANGED <<dbAvailable, store, found, seedVars>>

\* An insert that fails on an email that is present by now (what a unique
\* index on email would do).
register_insert_unique(p) ==
    /\ pc[p] = "reg_insert"
    /\ IF find_one_by_email(user, req[p].email) # {}
       THEN /\ Finish(p, req[p], HTTPException(400, "Email already registered"), 172)
            /\ UNCHANGED user
       ELSE /\ user' = create_document(user, "user",
                           UserSchema(req[p].name, req[p].email, req[p].password),
                           NoStamp)
            /\ Finish(p, req[p], Ok(<<to_public_id(Last(user'))>>), 184)
    /\ UNCHANGED <<dbAvailable, worker, booking, touched, found, seedVars>>

\* The handler from the insert on.
register_insert(p) ==
    /\ pc[p] = "reg_insert"
    /\ user' = create_document(user, "user",
                   UserSchema(req[p].name, req[p].email, req[p].password), NoStamp)
    /\ Finish(p, req[p], Ok(<<to_public_id(Last(user'))>>), 184)
    /\ UNCHANGED <<dbAvailable, worker, booking, touched, found, seedVars>>

(***************************************************************************)
(* POST /auth/login                                                        *)
(***************************************************************************)
\* A login that tells an unknown email from a wrong password.
login_result_leaky(found_user, password) ==
    IF found_user = {}
    THEN <<HTTPException(404, "User not found"), 193>>
    ELSE LET u == CHOOSE x \in found_user : TRUE
         IN  IF u.password_hash # hash_password(password)
             THEN <<HTTPException(401, "Invalid credentials"), 195>>
             ELSE <<Ok(<<to_public_id(u)>>), 196>>

\* The response for the lookup's result `found_user` ({} for None, else {u})
\* and the source line that produces it.
login_result(found_user, password) ==
    IF found_user = {}
    THEN <<HTTPException(401, "Invalid credentials"), 193>>
    ELSE LET u == CHOOSE x \in found_user : TRUE
         IN  IF u.password_hash # hash_password(password)
             THEN <<HTTPException(401, "Invalid credentials"), 195>>
             ELSE <<Ok(<<to_public_id(u)>>), 196>>

login(p) ==
    /\ pc[p] = "ready"
    /\ \E email \in Emails, password \in Passwords :
        LET request == [op |-> "login", email |-> email, password |-> password]
        IN  IF ~dbAvailable
            THEN /\ Finish(p, request, HTTPException(500, "Database not available"), 190)
                 /\ UNCHANGED touched
            ELSE /\ touched' = TRUE
                 /\ LET cands == find_one_by_email(user, email)
                    IN  \E u \in (IF cands = {} THEN {{}} ELSE {{c} : c \in cands}) :
                            LET r == login_result(u, password)
                            IN  Finish(p, request, r[1], r[2])
    /\ UNCHANGED <<dbAvailable, store, found, seedVars>>

(***************************************************************************)
(* GET /workers, POST /workers                                             *)
(***************************************************************************)
\* The query list_workers builds, applied to one document.
list_workers_query(w, service_type, location) ==
    /\ (service_type # "" => w.service_type = service_type)
    /\ (location # <<>> => RegexSearch(location, w.location))

list_workers_result(service_type, location) ==
    MapPublic(Limit(SelectSeq(worker,
                 LAMBDA w : list_workers_query(w, service_type, location)),
              WorkerLimit))

list_workers(p) ==
    /\ pc[p] = "ready"
    /\ \E service_type \in ServiceTypeFilters, location \in LocationFilters :
        LET request == [op |-> "list_workers", service_type |-> service_type,
                        location |-> location]
        IN  IF ~dbAvailable
            THEN /\ Finish(p, request, HTTPException(500, "Database not available"), 203)
                 /\ UNCHANGED touched
            ELSE /\ touched' = TRUE
                 /\ IF location # <<>> /\ ~RegexValid(location)
                    THEN Finish(p, request, Unhandled, 209)
                    ELSE Finish(p, request,
                                Ok(list_workers_result(service_type, location)), 210)
    /\ UNCHANGED <<dbAvailable, store, found, seedVars>>

\* Worker's field constraints: rating in [0, 5] (in tenths),
\* experience_years >= 0.
WorkerSchemaValid(w) ==
    /\ w.rating >= 0
    /\ w.rating <= 50
    /\ w.experience_years >= 0

create_worker(p) ==
    /\ pc[p] = "ready"
    /\ \E payload \in CreateWorkerInputs :
        LET request == [op |-> "create_worker", payload |-> payload]
        IN  IF ~dbAvailable
            THEN /\ Finish(p, request, HTTPException(500, "Database not available"), 226)
                 /\ UNCHANGED <<touched, worker>>
            ELSE IF ~WorkerSchemaValid(payload)
            THEN /\ Finish(p, request, Unhandled, 227)
                 /\ UNCHANGED <<touched, worker>>
            ELSE /\ Len(worker) - seeded < MaxCreated
                 /\ touched' = TRUE
                 /\ worker' = create_document(worker, "worker", payload, NoStamp)
                 /\ Finish(p, request, Ok(<<to_public_id(Last(worker'))>>), 230)
    /\ UNCHANGED <<dbAvailable, user, booking, found, seedVars>>

(***************************************************************************)
(* POST /bookings                                                          *)
(***************************************************************************)
\* A request that may reach the insert (the model admits it only while the
\* booking collection has room for it).
MayInsertBooking(payload) ==
    /\ ObjectIdValid(payload.user_id)
    /\ ObjectIdValid(payload.worker_id)
    /\ fromisoformat(payload.service_date) # {}

InFlightBookings == Pending("bk_worker") + Pending("bk_insert")

\* A handler that converts the identifier before it looks at the store handle.
create_booking_user_ids_first(p) ==
    /\ pc[p] = "ready"
    /\ \E payload \in BookingInputs :
        LET request == [op |-> "create_booking"] @@ payload
        IN  /\ MayInsertBooking(payload)
                  => Len(booking) + InFlightBookings < MaxBookings
            /\ IF ~ObjectIdValid(payload.user_id)
               THEN /\ Finish(p, request,
                              HTTPException(400, "Invalid user_id or worker_id"), 251)
                    /\ UNCHANGED <<touched, found>>
               ELSE IF ~dbAvailable
               THEN /\ Finish(p, request,
                              HTTPException(500, "Database not available"), 245)
                    /\ UNCHANGED <<touched, found>>
               ELSE /\ touched' = TRUE
                    /\ found' = [found EXCEPT ![p] =
                                    find_one_by_id(user, ObjectId(payload.user_id)) # {}]
                    /\ Goto(p, request, "bk_worker")
    /\ UNCHANGED <<dbAvailable, store, seedVars>>

\* Up to: user = db["user"].find_one({"_id": ObjectId(payload.user_id)})
create_booking_user(p) ==
    /\ pc[p] = "ready"
    /\ \E payload \in BookingInputs :
        LET request == [op |-> "create_booking"] @@ payload
        IN  /\ MayInsertBooking(payload)
                  => Len(booking) + InFlightBookings < MaxBookings
            /\ IF ~dbAvailable
               THEN /\ Finish(p, request,
                              HTTPException(500, "Database not available"), 245)
                    /\ UNCHANGED <<touched, found>>
               ELSE IF ~ObjectIdValid(payload.user_id)
               THEN /\ Finish(p, request,
                              HTTPException(400, "Invalid user_id or worker_id"), 251)
                    /\ UNCHANGED <<touched, found>>
               ELSE /\ touched' = TRUE
                    /\ found' = [found EXCEPT ![p] =
                                    find_one_by_id(user, ObjectId(payload.user_id)) # {}]
                    /\ Goto(p, request, "bk_worker")
    /\ UNCHANGED <<dbAvailable, store, seedVars>>

\* A reference check that fails only when both references are missing.
create_booking_check_both_missing(user_found, worker_id, service_date) ==
    IF ~ObjectIdValid(worker_id)
    THEN <<HTTPException(400, "Invalid user_id or worker_id"), 251>>
    ELSE IF ~user_found /\ find_one_by_id(worker, ObjectId(worker_id)) = {}
    THEN <<HTTPException(404, "User or Worker not found"), 253>>
    ELSE IF fromisoformat(service_date) = {}
    THEN <<Unhandled, 258>>
    ELSE <<>>

\* A reference check that looks only at the worker.
create_booking_check_worker_only(user_found, worker_id, service_date) ==
    IF ~ObjectIdValid(worker_id)
    THEN <<HTTPException(400, "Invalid user_id or worker_id"), 251>>
    ELSE IF find_one_by_id(worker, ObjectId(worker_id)) = {}
    THEN <<HTTPException(404, "User or Worker not found"), 253>>
    ELSE IF fromisoformat(service_date) = {}
    THEN <<Unhandled, 258>>
    ELSE <<>>

\* The outcome of the worker lookup, the reference check and the date
\* conversion: a response and its source line, or <<>> to go on to the insert.
create_booking_check(user_found, worker_id, service_date) ==
    IF ~ObjectIdValid(worker_id)
    THEN <<HTTPException(400, "Invalid user_id or worker_id"), 251>>
    ELSE IF ~user_found \/ find_one_by_id(worker, ObjectId(worker_id)) = {}
    THEN <<HTTPException(404, "User or Worker not found"), 253>>
    ELSE IF fromisoformat(service_date) = {}
    THEN <<Unhandled, 258>>
    ELSE <<>>

\* From worker = db["worker"].find_one(...) to the construction of the
\* Booking record.
create_booking_worker(p) ==
    /\ pc[p] = "bk_worker"
    /\ LET r == create_booking_check(found[p], req[p].worker_id, req[p].service_date)
       IN  IF r # <<>>
           THEN /\ Finish(p, req[p], r[1], r[2])
                /\ found' = [found EXCEPT ![p] = FALSE]
           ELSE /\ Goto(p, req[p], "bk_insert")
                /\ UNCHANGED found
    /\ UNCHANGED <<dbAvailable, store, touched, seedVars>>

BookingSchema(user_id, worker_id, service_date) ==
    [user_id |-> user_id, worker_id |-> worker_id,
     service_date |-> CHOOSE d \in fromisoformat(service_date) : TRUE,
     status |-> "pending"]

create_booking_insert(p) ==
    /\ pc[p] = "bk_insert"
    /\ \E t \in Stamps(booking) :
        booking' = create_document(booking, "booking",
                       BookingSchema(req[p].user_id, req[p].worker_id,
                                     req[p].service_date),
                       [created_at |-> t])
    /\ Finish(p, req[p], Ok(<<to_public_id(Last(booking'))>>), 265)
    /\ found' = [found EXCEPT ![p] = FALSE]
    /\ UNCHANGED <<dbAvailable, user, worker, touched, seedVars>>

(***************************************************************************)
(* GET /bookings                                                           *)
(***************************************************************************)
\* A sort in ascending order of created_at.
SortOldestFirst(docs) ==
    LET n == Len(docs)
        perms == {f \in [1..n -> 1..n] : \A i, j \in 1..n : i # j => f[i] # f[j]}
    IN  { [i \in 1..n |-> docs[f[i]]] : f \in
            {g \in perms : \A i, j \in 1..n :
                i < j => docs[g[i]].created_at <= docs[g[j]].created_at} }

\* The orders find(query).sort("created_at", -1) may return `docs` in: the
\* store does not specify the order of documents with equal keys.
SortNewestFirst(docs) ==
    LET n == Len(docs)
        perms == {f \in [1..n -> 1..n] : \A i, j \in 1..n : i # j => f[i] # f[j]}
    IN  { [i \in 1..n |-> docs[f[i]]] : f \in
            {g \in perms : \A i, j \in 1..n :
                i < j => docs[g[i]].created_at >= docs[g[j]].created_at} }

\* query = {};  if user_id: query["user_id"] = user_id
list_bookings_query(b, user_id) == Truthy(user_id) => b.user_id = user_id.val

\* The responses list_bookings may give for a user_id filter.
list_bookings_result(user_id) ==
    { MapPublic(Limit(sorted, BookingLimit)) :
        sorted \in SortNewestFirst(
            SelectSeq(booking, LAMBDA b : list_bookings_query(b, user_id))) }

list_bookings(p) ==
    /\ pc[p] = "ready"
    /\ \E user_id \in BookingFilters :
        LET request == [op |-> "list_bookings", user_id |-> user_id]
        IN  IF ~dbAvailable
            THEN /\ Finish(p, request, HTTPException(500, "Database not available"), 271)
                 /\ UNCHANGED touched
            ELSE /\ touched' = TRUE
                 /\ \E r \in list_bookings_result(user_id) :
                        Finish(p, request, Ok(r), 276)
    /\ UNCHANGED <<dbAvailable, store, found, seedVars>>

(***************************************************************************)
(* Startup seed.                                                           *)
(***************************************************************************)
\* A startup that seeds without counting.
seed_count_unconditional ==
    /\ seedPc = "start"
    /\ IF ~dbAvailable
       THEN /\ seedPc' = "up"
            /\ seedSawEmpty' = FALSE
            /\ UNCHANGED touched
       ELSE /\ touched' = TRUE
            /\ seedSawEmpty' = (Len(worker) = 0)
            /\ seedPc' = "seeding"
    /\ seedIdx' = 1
    /\ UNCHANGED <<dbAvailable, store, pc, req, found, resp, seeded>>

\* if db is None: return;  db["worker"].count_documents({}) == 0
seed_count ==
    /\ seedPc = "start"
    /\ IF ~dbAvailable
       THEN /\ seedPc' = "up"
            /\ seedSawEmpty' = FALSE
            /\ UNCHANGED touched
       ELSE /\ touched' = TRUE
            /\ seedSawEmpty' = (Len(worker) = 0)
            /\ seedPc' = IF Len(worker) = 0 THEN "seeding" ELSE "up"
    /\ seedIdx' = 1
    /\ UNCHANGED <<dbAvailable, store, pc, req, found, resp, seeded>>

\* for w in ap_workers: create_document("worker", w)
seed_insert ==
    /\ seedPc = "seeding"
    /\ worker' = create_document(worker, "worker", ap_workers[seedIdx], NoStamp)
    /\ seeded' = seeded + 1
    /\ IF seedIdx = Len(ap_workers)
       THEN seedPc' = "up" /\ seedIdx' = 1
       ELSE seedPc' = "seeding" /\ seedIdx' = seedIdx + 1
    /\ UNCHANGED <<dbAvailable, user, booking, touched, pc, req, found, resp,
                   seedSawEmpty>>

\* The server process is started again.
restart ==
    /\ seedPc = "up"
    /\ seedPc' = "start"
    /\ UNCHANGED <<dbAvailable, store, touched, pc, req, found, resp,
                   seedIdx, seedSawEmpty, seeded>>

(***************************************************************************)
(* Specifications.                                                         *)
(***************************************************************************)
AuthHandler(p) ==
    \/ register_lookup(p)
    \/ register_insert(p)
    \/ login(p)

WorkerHandler(p) ==
    \/ list_workers(p)
    \/ create_worker(p)

BookingHandler(p) ==
    \/ create_booking_user(p)
    \/ create_booking_worker(p)
    \/ create_booking_insert(p)
    \/ list_bookings(p)

Startup == seed_count \/ seed_insert \/ restart

\* The whole service: any requests, interleaved, and process starts.
Next ==
    \/ \E p \in Procs : AuthHandler(p) \/ WorkerHandler(p) \/ BookingHandler(p)
    \/ Startup

Spec == Init /\ [][Next]_vars

\* The whole service with no store (DATABASE_URL / DATABASE_NAME unset).
\* Every handler is at its entry step; the later steps of register and
\* create_booking and the seed loop are taken only from labels that the
\* entry steps reach.
DownInit == Init /\ ~dbAvailable

DownNext ==
    \/ \E p \in Procs :
          \/ register_lookup(p)
          \/ login(p)
          \/ list_workers(p)
          \/ create_worker(p)
          \/ create_booking_user(p)
          \/ list_bookings(p)
    \/ seed_count
    \/ restart

DownSpec == DownInit /\ [][DownNext]_vars

\* Clients that send only register and login requests, concurrently.
AuthNext == \E p \in Procs : AuthHandler(p)

AuthSpec == Init /\ [][AuthNext]_vars

\* The same requests handled one after the other: a request is taken up
\* only when no other request is being handled.
Quiet(p) == \A q \in Procs \ {p} : pc[q] = "ready"

AuthSeqNext ==
    \E p \in Procs :
        \/ Quiet(p) /\ register_lookup(p)
        \/ Quiet(p) /\ register_insert(p)
        \/ Quiet(p) /\ login(p)

AuthSeqSpec == Init /\ [][AuthSeqNext]_vars

\* Process starts and worker requests, concurrently.
WorkerNext == (\E p \in Procs : WorkerHandler(p)) \/ Startup

WorkerSpec == Init /\ [][WorkerNext]_vars

\* Booking requests, while further users register, served by a process that
\* starts on the store an earlier run left: one registered user and the
\* seeded workers (a store the service reaches from Init by a register
\* request and a completed startup).
BookingInit ==
    /\ dbAvailable = TRUE
    /\ user = create_document(<<>>, "user",
                  UserSchema("Alice", "a@x.com", "pw1"), NoStamp)
    /\ worker = create_document(
                    create_document(<<>>, "worker", ap_workers[1], NoStamp),
                    "worker", ap_workers[2], NoStamp)
    /\ booking = <<>>
    /\ touched = TRUE
    /\ pc = [p \in Procs |-> "ready"]
    /\ req = [p \in Procs |-> NoReq]
    /\ found = [p \in Procs |-> FALSE]
    /\ resp = NoResp
    /\ seedPc = "up"
    /\ seedIdx = 1
    /\ seedSawEmpty = TRUE
    /\ seeded = Len(ap_workers)

BookingNext ==
    \E p \in Procs : BookingHandler(p) \/ register_lookup(p) \/ register_insert(p)

BookingSpec == BookingInit /\ [][BookingNext]_vars

\* Every request that writes to the store (register, create_worker,
\* create_booking), concurrently, on the same store.  The requests left out
\* only read.
WriterNext ==
    \E p \in Procs :
        \/ register_lookup(p)
        \/ register_insert(p)
        \/ create_worker(p)
        \/ create_booking_user(p)
        \/ create_booking_worker(p)
        \/ create_booking_insert(p)

WriterSpec == BookingInit /\ [][WriterNext]_vars

(***************************************************************************)
(* Properties.                                                             *)
(***************************************************************************)
\* A response is sent in this step.
Responds(op) == resp' # resp /\ resp'.req.op = op

Response(r) == [status |-> r.status, detail |-> r.detail, body |-> r.body]

EmailCount(docs, e) == Cardinality({i \in DOMAIN docs : docs[i].email = e})

\* C1: with requests handled one after the other, once a User record with
\* email e exists (a register call for e has succeeded), every register call
\* for e is answered 400 'Email already registered' and inserts nothing, and
\* the number of User records with email e stays 1.
C1_DuplicateRegisterRejected ==
    [][\A e \in Emails :
          EmailCount(user, e) >= 1 =>
              /\ EmailCount(user', e) = 1
              /\ (Responds("register") /\ resp'.req.email = e) =>
                    /\ Response(resp') =
                           HTTPException(400, "Email already registered")
                    /\ user' = user]_vars

C1_Witness ==
    /\ resp.req.op = "register"
    /\ resp.req.email = "a@x.com"
    /\ resp.req.name = "Bob"
    /\ resp.status = 400
    /\ Len(user) = 1
    /\ user[1].email = "a@x.com"
    /\ user[1].name = "Alice"

\* C2: no two User records have the same email, in every reachable state
\* under any interleaving of requests.
C2_EmailUnique ==
    \A i, j \in DOMAIN user : user[i].email = user[j].email => i = j

\* C3: a login(e, p) is answered with the stored User record exactly when a
\* User record with email e exists whose password_hash equals
\* hash_password(p), the record returned is such a record, and the store is
\* left as it was.
C3_LoginIffMatchingRecord ==
    [][(Responds("login") /\ dbAvailable) =>
          LET e == resp'.req.email
              h == hash_password(resp'.req.password)
              matching == {i \in DOMAIN user :
                              user[i].email = e /\ user[i].password_hash = h}
          IN  /\ resp'.status = 200 <=> matching # {}
              /\ resp'.status = 200 =>
                    \E i \in matching : resp'.body = <<to_public_id(user[i])>>
              /\ store' = store]_vars

\* C3, for requests handled one after the other (checked under AuthSeqSpec).
C3_LoginSequential == C3_LoginIffMatchingRecord

\* C4: every failed login against an available store gets one and the same
\* response, 401 'Invalid credentials', whether no record matches the email
\* (line 193) or the password hash differs (line 195); with no store every
\* login gets 500 'Database not available'.  So the response to a failed
\* login does not depend on whether the email exists.
C4_LoginFailuresIdentical ==
    (resp.req.op = "login" /\ resp.status # 200) =>
        IF dbAvailable
        THEN /\ resp.line \in {193, 195}
             /\ Response(resp) = HTTPException(401, "Invalid credentials")
        ELSE Response(resp) = HTTPException(500, "Database not available")

C4_Witness ==
    /\ resp.req.op = "login"
    /\ resp.line = 195
    /\ resp.status = 401
    /\ \E i \in DOMAIN user : user[i].email = resp.req.email

C4_WitnessUnknownEmail ==
    /\ resp.req.op = "login"
    /\ resp.line = 193
    /\ resp.status = 401
    /\ \A i \in DOMAIN user : user[i].email # resp.req.email

\* C10: registration is check-then-insert.  A register request that has
\* passed the existence lookup inserts its record and answers 200 with it,
\* whatever the store holds by then; so two requests for one email that both
\* pass the lookup both insert and both succeed.
C10_InsertAfterLookupUnconditional ==
    [][\A p \in Procs :
          (pc[p] = "reg_insert" /\ pc'[p] # "reg_insert") =>
              /\ Len(user') = Len(user) + 1
              /\ Last(user').email = req[p].email
              /\ resp'.proc = p
              /\ Response(resp') = Ok(<<to_public_id(Last(user'))>>)]_vars

C10_Witness ==
    /\ Len(user) = 2
    /\ user[1].email = user[2].email
    /\ resp.req.op = "register"
    /\ resp.status = 200
    /\ resp.body = <<to_public_id(user[2])>>

\* C7: a list_workers request whose service_type and location are those of
\* a stored worker w is answered 200 with a list that contains w.
C7_RoundTrip ==
    [][Responds("list_workers") =>
          \A i \in DOMAIN worker :
              (/\ worker[i].service_type = resp'.req.service_type
               /\ worker[i].location = resp'.req.location) =>
                  /\ resp'.status = 200
                  /\ \E k \in DOMAIN resp'.body : resp'.body[k].id = worker[i]._id]_vars

\* C7, for locations that hold no character with a meaning in regular
\* expressions (and fewer matches than the cap).
C7_RoundTripPlainLocation ==
    [][Responds("list_workers") =>
          \A i \in DOMAIN worker :
              (/\ worker[i].service_type = resp'.req.service_type
               /\ worker[i].location = resp'.req.location
               /\ Range(worker[i].location) \cap {"(", ")", "."} = {}) =>
                  /\ resp'.status = 200
                  /\ \E k \in DOMAIN resp'.body : resp'.body[k].id = worker[i]._id]_vars

\* C8: with no store, every response is 500 'Database not available', no
\* handler gets past its entry, no store operation is performed, and the
\* startup routine ends without inserting anything.
C8_StoreUnavailable ==
    ~dbAvailable =>
        /\ resp = NoResp
              \/ Response(resp) = HTTPException(500, "Database not available")
        /\ \A p \in Procs : pc[p] = "ready"
        /\ ~touched
        /\ user = <<>> /\ worker = <<>> /\ booking = <<>>
        /\ seedPc \in {"start", "up"}
        /\ seeded = 0

C8_Witness ==
    /\ ~dbAvailable
    /\ resp.req.op = "create_booking"
    /\ ~ObjectIdValid(resp.req.user_id)
    /\ resp.status = 500
    /\ seedPc = "up"

\* C9: a startup inserts sample workers if and only if its count of the
\* Worker collection was 0; a startup against a non-empty collection leaves
\* it unchanged; and over all process starts each sample worker is inserted
\* at most once.
C9_SeedOnlyWhenEmpty ==
    [][/\ (seedPc = "start" /\ seedPc' # "start" /\ dbAvailable) =>
              /\ seedPc' = "seeding" <=> Len(worker) = 0
              /\ seedSawEmpty' <=> Len(worker) = 0
              /\ worker' = worker
       /\ seeded' # seeded =>
              /\ seedSawEmpty
              /\ seedPc = "seeding"
              /\ worker' = Append(worker, Last(worker'))
              /\ \E i \in DOMAIN ap_workers :
                    /\ i = seeded'
                    /\ \A f \in DOMAIN ap_workers[i] :
                          Last(worker')[f] = ap_workers[i][f]
       /\ seeded' <= Len(ap_workers)]_vars

C9_Witness ==
    /\ seedPc = "up"
    /\ ~seedSawEmpty
    /\ seeded = Len(ap_workers)
    /\ Len(worker) = Len(ap_workers) + 1

\* The steps of create_booking against an available store.  `needsDate`
\* tells whether going on to the insert is required only of requests whose
\* service_date converts.
CreateBookingSteps(needsDate) ==
    \A p \in Procs :
        \* the entry step: a malformed user_id is answered 400; otherwise the
        \* user lookup's result is kept
        /\ (pc[p] = "ready" /\ resp'.proc = p /\ Responds("create_booking")) =>
              /\ ~ObjectIdValid(resp'.req.user_id)
              /\ Response(resp') = HTTPException(400, "Invalid user_id or worker_id")
              /\ booking' = booking
        /\ (pc[p] = "ready" /\ pc'[p] = "bk_worker") =>
              /\ ObjectIdValid(req'[p].user_id)
              /\ found'[p] <=>
                    \E i \in DOMAIN user : user[i]._id = ObjectId(req'[p].user_id)
              /\ booking' = booking
        \* the worker lookup and the checks
        /\ (pc[p] = "bk_worker" /\ pc'[p] # "bk_worker") =>
              LET wellFormed == ObjectIdValid(req[p].worker_id)
                  exist == /\ found[p]
                           /\ \E i \in DOMAIN worker :
                                 worker[i]._id = ObjectId(req[p].worker_id)
                  converts == fromisoformat(req[p].service_date) # {}
              IN  /\ booking' = booking
                  /\ ~wellFormed =>
                        /\ resp'.proc = p
                        /\ Response(resp') =
                               HTTPException(400, "Invalid user_id or worker_id")
                  /\ (wellFormed /\ ~exist) =>
                        /\ resp'.proc = p
                        /\ Response(resp') =
                               HTTPException(404, "User or Worker not found")
                  /\ (wellFormed /\ exist /\ (needsDate => converts)) =>
                        pc'[p] = "bk_insert"
                  /\ (wellFormed /\ exist /\ needsDate /\ ~converts) =>
                        /\ resp'.proc = p
                        /\ Response(resp') = Unhandled
        \* the insert
        /\ (pc[p] = "bk_insert" /\ pc'[p] # "bk_insert") =>
              /\ booking' = Append(booking, Last(booking'))
              /\ Last(booking').user_id = req[p].user_id
              /\ Last(booking').worker_id = req[p].worker_id
              /\ Last(booking').status = "pending"
              /\ resp'.proc = p
              /\ Response(resp') = Ok(<<to_public_id(Last(booking'))>>)
        /\ booking' # booking => \E q \in Procs : pc[q] = "bk_insert"

ListBookingsStep(filtered) ==
    LET q == resp'.req.user_id
        body == resp'.body
        matches == {i \in DOMAIN booking : filtered => booking[i].user_id = q.val}
    IN  /\ resp'.status = 200
        /\ filtered => \A k \in DOMAIN body : body[k].user_id = q.val
        /\ \A k1, k2 \in DOMAIN body :
              body[k1].created_at > body[k2].created_at => k1 < k2
        /\ Len(body) <= BookingLimit
        /\ Cardinality(matches) <= BookingLimit =>
              /\ Len(body) = Cardinality(matches)
              /\ \A i \in matches :
                    \E k \in DOMAIN body : body[k] = to_public_id(booking[i])
        /\ store' = store

\* C6: list_bookings called with a user_id returns only bookings with that
\* user_id, newest first, all of them up to the cap; called without it, it
\* applies no filter.
C6_ListBookingsOriginal ==
    [][Responds("list_bookings") => ListBookingsStep(resp'.req.user_id.some)]_vars

\* C6, amended: the user_id acts as a filter when it is given and not empty;
\* an empty user_id, like an absent one, applies no filter.
C6_ListBookingsAmended ==
    [][Responds("list_bookings") => ListBookingsStep(Truthy(resp'.req.user_id))]_vars

C6_Witness ==
    /\ resp.req.op = "list_bookings"
    /\ resp.req.user_id = Some(User0)
    /\ Len(resp.body) = 2
    /\ resp.body[1].created_at > resp.body[2].created_at
    /\ resp.body[1].id = booking[2]._id

\* The identifier string `id` resolves to a document of `docs`, the way
\* create_booking resolves it: find_one({"_id": ObjectId(id)}) is not None.
Resolves(docs, id) ==
    /\ ObjectIdValid(id)
    /\ find_one_by_id(docs, ObjectId(id)) # {}

C11_StoredIdIsPublicId ==
    \A i \in DOMAIN booking :
        \E k \in DOMAIN user : to_public_id(user[k]).id = booking[i].user_id

====
